---- MODULE Spec2Model ----
(***************************************************************************)
(* Model of the financial projection engine of the laser ROI calculator:   *)
(* formula primitives, the monthly projection step, the projection driver  *)
(* and the KPI aggregator (src/src/utils/reportGenerator.ts, 465-760).     *)
(*                                                                         *)
(* JavaScript numbers are modelled as exact rationals <<n, d>> with d > 0  *)
(* in lowest terms, so that every equality below is an equality of values. *)
(***************************************************************************)
EXTENDS Integers, Sequences, FiniteSets, TLC

(***************************************************************************)
(* Bounds of the model.                                                    *)
(***************************************************************************)
MaxMonths == 4
MaxTerm == 3

(***************************************************************************)
(* Number arithmetic (the +, -, *, /, Math.max, Math.pow of the source).   *)
(***************************************************************************)
Abs(x) == IF x < 0 THEN -x ELSE x

RECURSIVE GCD(_, _)
GCD(a, b) == IF b = 0 THEN a ELSE GCD(b, a % b)

Rat(n, d) ==
  LET g == GCD(Abs(n), Abs(d))
      s == IF d < 0 THEN -1 ELSE 1
  IN  <<(s * n) \div g, (s * d) \div g>>

Num(i) == <<i, 1>>

Zero == Num(0)

One == Num(1)

RAdd(x, y) ==
  LET l == (x[2] \div GCD(x[2], y[2])) * y[2]
  IN  Rat(x[1] * (l \div x[2]) + y[1] * (l \div y[2]), l)

RNeg(x) == <<-x[1], x[2]>>

RSub(x, y) == RAdd(x, RNeg(y))

RMul(x, y) ==
  LET g1 == GCD(Abs(x[1]), y[2])
      g2 == GCD(Abs(y[1]), x[2])
  IN  <<(x[1] \div g1) * (y[1] \div g2), (x[2] \div g2) * (y[2] \div g1)>>

RInv(x) == IF x[1] < 0 THEN <<-x[2], -x[1]>> ELSE <<x[2], x[1]>>

RDiv(x, y) == RMul(x, RInv(y))

RLe(x, y) == RSub(x, y)[1] <= 0

RLt(x, y) == RSub(x, y)[1] < 0

RGe(x, y) == RLe(y, x)

RMax(x, y) == IF RLe(x, y) THEN y ELSE x

RECURSIVE RPow(_, _)
RPow(x, n) == IF n = 0 THEN One ELSE RMul(x, RPow(x, n - 1))

\* Math.pow(x, e) for an integer exponent e of either sign
MathPow(x, e) == IF e >= 0 THEN RPow(x, e) ELSE RInv(RPow(x, -e))

\* Sum of s[lo..hi]; the range is halved so that a long reduce stays shallow
\* (exact addition is associative)
RECURSIVE RSumRange(_, _, _)
RSumRange(s, lo, hi) ==
  IF lo > hi THEN Zero
  ELSE IF lo = hi THEN s[lo]
  ELSE LET mid == (lo + hi) \div 2
       IN  RAdd(RSumRange(s, lo, mid), RSumRange(s, mid + 1, hi))

RSum(s) == RSumRange(s, 1, Len(s))

(***************************************************************************)
(* Formula primitives.                                                     *)
(***************************************************************************)

\* Variant: at rate zero the principal is not spread over the term
calculatePMTZeroRateUndivided(apr, termMonths, principal) ==
  LET r == RDiv(apr, Num(12))
  IN  IF r = Zero
      THEN principal
      ELSE RDiv(RMul(r, principal),
                RSub(One, MathPow(RAdd(One, r), -termMonths)))

\* Variant: the exponent of the annuity factor has the wrong sign
calculatePMTPositiveExponent(apr, termMonths, principal) ==
  LET r == RDiv(apr, Num(12))
  IN  IF r = Zero
      THEN RDiv(principal, Num(termMonths))
      ELSE RDiv(RMul(r, principal),
                RSub(One, MathPow(RAdd(One, r), termMonths)))

\* Loan payment calculation (PMT function)
calculatePMT(apr, termMonths, principal) ==
  LET r == RDiv(apr, Num(12))
  IN  IF r = Zero
      THEN RDiv(principal, Num(termMonths))
      ELSE RDiv(RMul(r, principal),
                RSub(One, MathPow(RAdd(One, r), -termMonths)))

\* Variant: beyond the ramp array the last ramp entry keeps applying
rampFactorHoldsLast(month, ramp) ==
  IF month <= Len(ramp) THEN RDiv(Num(ramp[month]), Num(100))
  ELSE IF ramp = <<>> THEN One ELSE RDiv(Num(ramp[Len(ramp)]), Num(100))

\* Variant: the ramp is read one entry too far (ramp[month] of the 0-based array)
rampFactorNextEntry(month, ramp) ==
  IF month < Len(ramp) THEN RDiv(Num(ramp[month + 1]), Num(100)) ELSE One

\* month <= ramp.length ? ramp[month - 1] / 100 : 1  (sequences are 1-based here)
rampFactor(month, ramp) ==
  IF month <= Len(ramp) THEN RDiv(Num(ramp[month]), Num(100)) ELSE One

\* Variant: after month 12 the index stays on the last entry instead of cycling
seasonalityFactorClamped(month, seasonality) ==
  RDiv(Num(seasonality[IF month > 12 THEN 12 ELSE month]), Num(100))

\* seasonality[(month - 1) % 12] / 100
seasonalityFactor(month, seasonality) ==
  RDiv(Num(seasonality[((month - 1) % 12) + 1]), Num(100))

\* Monthly treatment volume with ramp and seasonality
calculateMonthlyTreatments(openDays, treatmentsPerDay, noShowRate, month, ramp, seasonality) ==
  RMul(RMul(RMul(RMul(Num(openDays), Num(treatmentsPerDay)),
                 RSub(One, RDiv(Num(noShowRate), Num(100)))),
            rampFactor(month, ramp)),
       seasonalityFactor(month, seasonality))

\* Net price per treatment
calculateNetPricePerTreatment(listPrice, discount, upsellAvg, upsellAttachRate) ==
  LET discountedPrice == RMul(Num(listPrice), RSub(One, RDiv(Num(discount), Num(100))))
      upsellRevenue == RMul(Num(upsellAvg), RDiv(Num(upsellAttachRate), Num(100)))
  IN  RAdd(discountedPrice, upsellRevenue)

\* Variable cost per treatment
calculateVariableCostPerTreatment(consumables, disposables, clinicalTimeCost, avgTreatmentTime, roomTimeOverhead, paymentProcessingPercent, paymentProcessingFixed, netPrice) ==
  LET clinicalCost == RDiv(Num(clinicalTimeCost * avgTreatmentTime), Num(60))
      roomCost == RDiv(Num(roomTimeOverhead * avgTreatmentTime), Num(60))
      processingCost == RAdd(RDiv(RMul(netPrice, Num(paymentProcessingPercent)), Num(100)),
                             Num(paymentProcessingFixed))
  IN  RAdd(RAdd(RAdd(RAdd(Num(consumables), Num(disposables)), clinicalCost), roomCost),
           processingCost)

\* Simplified MACRS - 5-year property
macrsRates == <<Rat(20, 100), Rat(32, 100), Rat(192, 1000),
                Rat(1152, 10000), Rat(1152, 10000), Rat(576, 10000)>>

\* Variant: the accelerated method depreciates cost less salvage value
calculateDepreciationMacrsNetOfSalvage(method, cost, salvageValue, life, month) ==
  IF method = "straight-line"
  THEN RDiv(RSub(cost, Num(salvageValue)), Num(life * 12))
  ELSE LET year == (month - 1) \div 12
       IN  IF year >= Len(macrsRates)
           THEN Zero
           ELSE RDiv(RMul(RSub(cost, Num(salvageValue)), macrsRates[year + 1]), Num(12))

\* Variant: straight-line depreciation stops at the end of the life
calculateDepreciationStopsAtLife(method, cost, salvageValue, life, month) ==
  IF method = "straight-line"
  THEN IF month > life * 12 THEN Zero
       ELSE RDiv(RSub(cost, Num(salvageValue)), Num(life * 12))
  ELSE LET year == (month - 1) \div 12
       IN  IF year >= Len(macrsRates)
           THEN Zero
           ELSE RDiv(RMul(cost, macrsRates[year + 1]), Num(12))

\* Depreciation of one month
calculateDepreciation(method, cost, salvageValue, life, month) ==
  IF method = "straight-line"
  THEN RDiv(RSub(cost, Num(salvageValue)), Num(life * 12))
  ELSE LET year == (month - 1) \div 12
       IN  IF year >= Len(macrsRates)
           THEN Zero
           ELSE RDiv(RMul(cost, macrsRates[year + 1]), Num(12))

(***************************************************************************)
(* Monthly projection step.                                                *)
(***************************************************************************)

\* Variant: the last bucket is left out of the sum
totalFixedOpexSkipsLast(fixedOpex) ==
  Num(fixedOpex.marketingBudget + fixedOpex.staffSalaryAllocation + fixedOpex.rentAllocation
      + fixedOpex.insurance + fixedOpex.softwareEMR + fixedOpex.maintenancePostWarranty
      + fixedOpex.calibrationService)

\* Sum of all fixed-opex buckets (Object.values(fixedOpex).reduce)
totalFixedOpex(fixedOpex) ==
  Num(fixedOpex.marketingBudget + fixedOpex.staffSalaryAllocation + fixedOpex.rentAllocation
      + fixedOpex.insurance + fixedOpex.softwareEMR + fixedOpex.maintenancePostWarranty
      + fixedOpex.calibrationService + fixedOpex.downtimeReserve)

\* Total acquisition cost of the device
totalCost(device) ==
  Num(device.msrp - device.discount + device.accessories + device.shippingInstall)

\* Loan principal: total cost less the resolved down payment
principal(financing, cost) ==
  RSub(cost, IF financing.downPaymentType = "percent"
             THEN RDiv(RMul(cost, Num(financing.downPayment)), Num(100))
             ELSE Num(financing.downPayment))

\* Down payment subtracted from the cash flow of month 1
downPaymentAmount(financing, cost) ==
  IF financing.downPaymentType = "percent"
  THEN RDiv(RMul(cost, Num(financing.downPayment)), Num(100))
  ELSE Num(financing.downPayment)

\* Variant: the balance is not floored
newBalanceAfterPaymentNoFloor(balance, monthlyPayment, interest) ==
  RSub(balance, RSub(monthlyPayment, interest))

\* Balance after one payment, floored at zero
newBalanceAfterPayment(balance, monthlyPayment, interest) ==
  RMax(Zero, RSub(balance, RSub(monthlyPayment, interest)))

\* Variant: interest accrues at the annual rate every month
FinancingAnnualInterest(financing, cost, month, previousBalance) ==
  IF financing.purchaseMethod = "loan"
  THEN LET p == principal(financing, cost)
           startBalance == IF month = 1 THEN p ELSE previousBalance
           monthlyPayment == calculatePMT(Num(financing.apr), financing.termMonths, p)
           interest == RMul(startBalance, Num(financing.apr))
       IN  [monthlyPayment |-> monthlyPayment,
            interest |-> interest,
            newBalance |-> newBalanceAfterPayment(startBalance, monthlyPayment, interest)]
  ELSE [monthlyPayment |-> Zero, interest |-> Zero, newBalance |-> previousBalance]

\* Variant: no payment is due once the balance carried in is zero
FinancingStopsWhenPaidOff(financing, cost, month, previousBalance) ==
  IF financing.purchaseMethod = "loan"
  THEN LET p == principal(financing, cost)
           startBalance == IF month = 1 THEN p ELSE previousBalance
           monthlyPayment == IF startBalance = Zero THEN Zero
                             ELSE calculatePMT(Num(financing.apr), financing.termMonths, p)
           interest == RMul(startBalance, RDiv(Num(financing.apr), Num(12)))
       IN  [monthlyPayment |-> monthlyPayment,
            interest |-> interest,
            newBalance |-> newBalanceAfterPayment(startBalance, monthlyPayment, interest)]
  ELSE [monthlyPayment |-> Zero, interest |-> Zero, newBalance |-> previousBalance]

\* Financing branch: payment, interest and the balance carried forward
Financing(financing, cost, month, previousBalance) ==
  IF financing.purchaseMethod = "loan"
  THEN LET p == principal(financing, cost)
           startBalance == IF month = 1 THEN p ELSE previousBalance
           monthlyPayment == calculatePMT(Num(financing.apr), financing.termMonths, p)
           interest == RMul(startBalance, RDiv(Num(financing.apr), Num(12)))
       IN  [monthlyPayment |-> monthlyPayment,
            interest |-> interest,
            newBalance |-> newBalanceAfterPayment(startBalance, monthlyPayment, interest)]
  ELSE [monthlyPayment |-> Zero, interest |-> Zero, newBalance |-> previousBalance]

\* Earnings before interest and tax
Ebit(ebitda, depreciation) == RSub(ebitda, depreciation)

\* Variant: losses earn a negative tax
TaxesNoFloor(ebit, taxRate) == RMul(ebit, RDiv(Num(taxRate), Num(100)))

\* Taxes, floored at zero
Taxes(ebit, taxRate) == RMax(Zero, RMul(ebit, RDiv(Num(taxRate), Num(100))))

\* Variant: the initial investment is subtracted in every month
CashFlowInvestmentEveryMonth(financing, cost, month, ebitda, taxes, monthlyPayment) ==
  LET base == RSub(ebitda, taxes)
      afterInvestment ==
        IF financing.purchaseMethod = "cash"
        THEN RSub(base, cost)
        ELSE IF financing.purchaseMethod = "loan"
             THEN RSub(base, downPaymentAmount(financing, cost))
             ELSE base
  IN  IF financing.purchaseMethod = "loan"
      THEN RSub(afterInvestment, monthlyPayment)
      ELSE afterInvestment

\* Variant: every method but cash pays the down payment in month 1
CashFlowDownPaymentUnlessCash(financing, cost, month, ebitda, taxes, monthlyPayment) ==
  LET base == RSub(ebitda, taxes)
      afterInvestment ==
        IF month = 1
        THEN IF financing.purchaseMethod = "cash"
             THEN RSub(base, cost)
             ELSE RSub(base, downPaymentAmount(financing, cost))
        ELSE base
  IN  IF financing.purchaseMethod = "loan"
      THEN RSub(afterInvestment, monthlyPayment)
      ELSE afterInvestment

\* Cash flow of the month, with the initial investment in month 1
CashFlow(financing, cost, month, ebitda, taxes, monthlyPayment) ==
  LET base == RSub(ebitda, taxes)
      afterInvestment ==
        IF month = 1
        THEN IF financing.purchaseMethod = "cash"
             THEN RSub(base, cost)
             ELSE IF financing.purchaseMethod = "loan"
                  THEN RSub(base, downPaymentAmount(financing, cost))
                  ELSE base
        ELSE base
  IN  IF financing.purchaseMethod = "loan"
      THEN RSub(afterInvestment, monthlyPayment)
      ELSE afterInvestment

\* Variant: the prior total is dropped
CumulativeCashNoCarry(previousCumulativeCash, cashFlow) == cashFlow

\* Running total of cash flow
CumulativeCash(previousCumulativeCash, cashFlow) == RAdd(previousCumulativeCash, cashFlow)

\* Variant: interest is deducted before tax
calculateMonthlyResultsInterestInEbit(inputs, month, previousBalance, previousCumulativeCash) ==
  LET device == inputs.device
      financing == inputs.financing
      utilization == inputs.utilization
      pricing == inputs.pricing
      variableCosts == inputs.variableCosts
      treatments == calculateMonthlyTreatments(utilization.openDaysPerMonth,
                      utilization.treatmentsPerDay, utilization.noShowRate, month,
                      utilization.utilizationRamp, utilization.seasonality)
      netPricePerTx == calculateNetPricePerTreatment(pricing.listPricePerTreatment,
                         pricing.discountPercent, pricing.upsellAvgPerTx,
                         pricing.upsellAttachRate)
      revenue == RAdd(RMul(treatments, netPricePerTx),
                      RMul(Num(pricing.membershipMRR),
                           RDiv(Num(pricing.membershipPercent), Num(100))))
      variableCostPerTx == calculateVariableCostPerTreatment(variableCosts.consumables,
                             variableCosts.disposables, variableCosts.clinicalTimeCost,
                             utilization.avgTreatmentTime, variableCosts.roomTimeOverhead,
                             variableCosts.paymentProcessingPercent,
                             variableCosts.paymentProcessingFixed, netPricePerTx)
      totalVariableCosts == RMul(treatments, variableCostPerTx)
      grossProfit == RSub(revenue, totalVariableCosts)
      fixedOpexTotal == totalFixedOpex(inputs.fixedOpex)
      cost == totalCost(device)
      depreciation == calculateDepreciation(device.depreciationMethod, cost,
                        device.salvageValue, device.depreciationLife, month)
      fin == Financing(financing, cost, month, previousBalance)
      ebitda == RSub(grossProfit, fixedOpexTotal)
      ebit == RSub(Ebit(ebitda, depreciation), fin.interest)
      taxes == Taxes(ebit, device.taxRate)
      netIncome == RSub(ebit, taxes)
      cashFlow == CashFlow(financing, cost, month, ebitda, taxes, fin.monthlyPayment)
      cumulativeCash == CumulativeCash(previousCumulativeCash, cashFlow)
  IN  [month |-> month,
       treatments |-> treatments,
       revenue |-> revenue,
       variableCosts |-> totalVariableCosts,
       grossProfit |-> grossProfit,
       fixedOpex |-> fixedOpexTotal,
       ebitda |-> ebitda,
       depreciation |-> depreciation,
       interest |-> fin.interest,
       ebit |-> ebit,
       taxes |-> taxes,
       netIncome |-> netIncome,
       cashFlow |-> cashFlow,
       cumulativeCash |-> cumulativeCash,
       loanBalance |-> fin.newBalance]

\* Monthly results for a given month
calculateMonthlyResults(inputs, month, previousBalance, previousCumulativeCash) ==
  LET device == inputs.device
      financing == inputs.financing
      utilization == inputs.utilization
      pricing == inputs.pricing
      variableCosts == inputs.variableCosts
      treatments == calculateMonthlyTreatments(utilization.openDaysPerMonth,
                      utilization.treatmentsPerDay, utilization.noShowRate, month,
                      utilization.utilizationRamp, utilization.seasonality)
      netPricePerTx == calculateNetPricePerTreatment(pricing.listPricePerTreatment,
                         pricing.discountPercent, pricing.upsellAvgPerTx,
                         pricing.upsellAttachRate)
      revenue == RAdd(RMul(treatments, netPricePerTx),
                      RMul(Num(pricing.membershipMRR),
                           RDiv(Num(pricing.membershipPercent), Num(100))))
      variableCostPerTx == calculateVariableCostPerTreatment(variableCosts.consumables,
                             variableCosts.disposables, variableCosts.clinicalTimeCost,
                             utilization.avgTreatmentTime, variableCosts.roomTimeOverhead,
                             variableCosts.paymentProcessingPercent,
                             variableCosts.paymentProcessingFixed, netPricePerTx)
      totalVariableCosts == RMul(treatments, variableCostPerTx)
      grossProfit == RSub(revenue, totalVariableCosts)
      fixedOpexTotal == totalFixedOpex(inputs.fixedOpex)
      cost == totalCost(device)
      depreciation == calculateDepreciation(device.depreciationMethod, cost,
                        device.salvageValue, device.depreciationLife, month)
      fin == Financing(financing, cost, month, previousBalance)
      ebitda == RSub(grossProfit, fixedOpexTotal)
      ebit == Ebit(ebitda, depreciation)
      taxes == Taxes(ebit, device.taxRate)
      netIncome == RSub(ebit, taxes)
      cashFlow == CashFlow(financing, cost, month, ebitda, taxes, fin.monthlyPayment)
      cumulativeCash == CumulativeCash(previousCumulativeCash, cashFlow)
  IN  [month |-> month,
       treatments |-> treatments,
       revenue |-> revenue,
       variableCosts |-> totalVariableCosts,
       grossProfit |-> grossProfit,
       fixedOpex |-> fixedOpexTotal,
       ebitda |-> ebitda,
       depreciation |-> depreciation,
       interest |-> fin.interest,
       ebit |-> ebit,
       taxes |-> taxes,
       netIncome |-> netIncome,
       cashFlow |-> cashFlow,
       cumulativeCash |-> cumulativeCash,
       loanBalance |-> fin.newBalance]

(***************************************************************************)
(* KPI aggregator.                                                         *)
(***************************************************************************)

\* Variant: the last matching index instead of the first
findLastIndexCumulativeNonNegative(results) ==
  LET hits == {i \in 1..Len(results) : RGe(results[i].cumulativeCash, Zero)}
  IN  IF hits = {} THEN -1
      ELSE (CHOOSE i \in hits : \A j \in hits : i >= j) - 1

\* results.findIndex(r => r.cumulativeCash >= 0), 0-based, -1 when absent
findIndexCumulativeNonNegative(results) ==
  LET hits == {i \in 1..Len(results) : RGe(results[i].cumulativeCash, Zero)}
  IN  IF hits = {} THEN -1
      ELSE (CHOOSE i \in hits : \A j \in hits : i <= j) - 1

\* Variant: no fallback to the horizon when no record qualifies
paybackMonthsNoFallback(results) == findIndexCumulativeNonNegative(results) + 1

\* Payback period in months
paybackMonths(results) ==
  LET paybackMonth == findIndexCumulativeNonNegative(results) + 1
  IN  IF paybackMonth > 0 THEN paybackMonth ELSE Len(results)

(***************************************************************************)
(* Discounted sums.  Math.pow(1 + rate, index / 12) is irrational for most *)
(* arguments, so a sum of terms c / (1 + rate)^(e/12) is kept exactly, as  *)
(* the rate (in percentage points) and the sequence of its coefficients c  *)
(* by exponent e = 0, 1, 2, ... twelfths, without trailing zeros.  For     *)
(* rate 10 and fewer than 12 terms two such sums denote the same number    *)
(* only if they are the same sequence (10 x^12 = 11 has no rational        *)
(* factor).                                                                *)
(***************************************************************************)
RECURSIVE Trim(_)
Trim(p) == IF p # <<>> /\ p[Len(p)] = Zero THEN Trim(SubSeq(p, 1, Len(p) - 1)) ELSE p

\* c / (1 + rate)^(e/12) as a coefficient sequence
Discounted(c, e) == Trim([j \in 1..(e + 1) |-> IF j = e + 1 THEN c ELSE Zero])

\* sum + term, coefficient by coefficient
AddDiscounted(p, q) ==
  LET n == IF Len(p) >= Len(q) THEN Len(p) ELSE Len(q)
      at(s, j) == IF j <= Len(s) THEN s[j] ELSE Zero
  IN  Trim([j \in 1..n |-> RAdd(at(p, j), at(q, j))])

\* 10% discount rate, in percentage points
discountRate == 10

\* Sum of cashFlow / Math.pow(1 + discountRate, index / 12) over records
\* lo..hi, the array index of record 1 being first; the range is halved so
\* that a long reduce stays shallow (exact addition is associative)
RECURSIVE discountedSum(_, _, _, _)
discountedSum(results, lo, hi, first) ==
  IF lo > hi THEN <<>>
  ELSE IF lo = hi THEN Discounted(results[lo].cashFlow, first + lo - 1)
  ELSE LET mid == (lo + hi) \div 2
       IN  AddDiscounted(discountedSum(results, lo, mid, first),
                         discountedSum(results, mid + 1, hi, first))

\* Variant: the exponent is the 1-based month number
npvTermsOneBased(results, count) == discountedSum(results, 1, count, 1)

\* results.reduce((sum, r, index) => sum + r.cashFlow / Math.pow(1 + discountRate, index / 12), 0)
\* index is the 0-based array index
npvTerms(results, count) == discountedSum(results, 1, count, 0)

\* NPV (simplified)
npv(results) == [rate |-> discountRate, terms |-> npvTerms(results, Len(results))]

\* Variant: the down payment is always read as a flat amount
kpiMonthlyPaymentFlatDown(inputs) ==
  IF inputs.financing.purchaseMethod = "loan"
  THEN LET cost == Num(inputs.device.msrp - inputs.device.discount
                       + inputs.device.accessories + inputs.device.shippingInstall)
           p == RSub(cost, Num(inputs.financing.downPayment))
       IN  calculatePMT(Num(inputs.financing.apr), inputs.financing.termMonths, p)
  ELSE Zero

\* Monthly payment as the KPI aggregator derives it
kpiMonthlyPayment(inputs) ==
  IF inputs.financing.purchaseMethod = "loan"
  THEN LET cost == Num(inputs.device.msrp - inputs.device.discount
                       + inputs.device.accessories + inputs.device.shippingInstall)
           p == RSub(cost, IF inputs.financing.downPaymentType = "percent"
                           THEN RDiv(RMul(cost, Num(inputs.financing.downPayment)), Num(100))
                           ELSE Num(inputs.financing.downPayment))
       IN  calculatePMT(Num(inputs.financing.apr), inputs.financing.termMonths, p)
  ELSE Zero

\* Variant: payment processing is charged on the price without upsell
kpiGrossMarginPerTxNoUpsell(inputs) ==
  LET netPrice == calculateNetPricePerTreatment(inputs.pricing.listPricePerTreatment,
                    inputs.pricing.discountPercent, inputs.pricing.upsellAvgPerTx,
                    inputs.pricing.upsellAttachRate)
  IN  RSub(netPrice,
           calculateVariableCostPerTreatment(inputs.variableCosts.consumables,
             inputs.variableCosts.disposables, inputs.variableCosts.clinicalTimeCost,
             inputs.utilization.avgTreatmentTime, inputs.variableCosts.roomTimeOverhead,
             inputs.variableCosts.paymentProcessingPercent,
             inputs.variableCosts.paymentProcessingFixed,
             calculateNetPricePerTreatment(inputs.pricing.listPricePerTreatment,
               inputs.pricing.discountPercent, 0, 0)))

\* Gross margin per treatment as the KPI aggregator derives it
kpiGrossMarginPerTx(inputs) ==
  LET netPrice == calculateNetPricePerTreatment(inputs.pricing.listPricePerTreatment,
                    inputs.pricing.discountPercent, inputs.pricing.upsellAvgPerTx,
                    inputs.pricing.upsellAttachRate)
  IN  RSub(netPrice,
           calculateVariableCostPerTreatment(inputs.variableCosts.consumables,
             inputs.variableCosts.disposables, inputs.variableCosts.clinicalTimeCost,
             inputs.utilization.avgTreatmentTime, inputs.variableCosts.roomTimeOverhead,
             inputs.variableCosts.paymentProcessingPercent,
             inputs.variableCosts.paymentProcessingFixed, netPrice))

\* Variant: the EBITDA of the last, fully ramped month
kpiAvgMonthlyEBITDALastMonth(results) == results[Len(results)].ebitda

\* results.reduce((sum, r) => sum + r.ebitda, 0) / results.length
kpiAvgMonthlyEBITDA(results) ==
  RDiv(RSum([i \in 1..Len(results) |-> results[i].ebitda]), Num(Len(results)))

\* KPI summary of a record sequence.  The irr field is the result of
\* calculateIRR, which is modelled step by step as the search below.
calculateKPIs(results, inputs) ==
  LET n == Num(Len(results))
      avgMonthlyRevenue == RDiv(RSum([i \in 1..Len(results) |-> results[i].revenue]), n)
      avgMonthlyEBITDA == kpiAvgMonthlyEBITDA(results)
      monthlyPayment == kpiMonthlyPayment(inputs)
      grossMarginPerTx == kpiGrossMarginPerTx(inputs)
      totalFixedCosts == totalFixedOpex(inputs.fixedOpex)
      breakevenTreatmentsPerMonth == RDiv(RAdd(totalFixedCosts, monthlyPayment), grossMarginPerTx)
      breakevenTreatmentsPerDay ==
        RDiv(breakevenTreatmentsPerMonth, Num(inputs.utilization.openDaysPerMonth))
      dscr == RDiv(avgMonthlyEBITDA, RMax(monthlyPayment, One))
  IN  [monthlyPayment |-> monthlyPayment,
       monthlyRevenue |-> avgMonthlyRevenue,
       monthlyEBITDA |-> avgMonthlyEBITDA,
       breakevenTreatmentsPerDay |-> breakevenTreatmentsPerDay,
       paybackMonths |-> paybackMonths(results),
       npv |-> npv(results),
       dscr |-> dscr]

(***************************************************************************)
(* IRR search.  The rate is kept in whole percentage points (irr * 100),   *)
(* 1 + irr is base / 100 with base = 100 + rate.                           *)
(*                                                                         *)
(* 1 / Math.pow(1 + irr, index / 12) is bracketed between two consecutive  *)
(* millionths: DiscountFloor[index][base - 8] is its floor in millionths   *)
(* for base 9..211 and index 1..3.  It is exactly 1 for index 0 or base    *)
(* 100 and is not a multiple of a millionth otherwise.                     *)
(***************************************************************************)
Scale == 10 ^ 6

DiscountFloor == <<
  <<
    1222211, 1211527, 1201943, 1193259, 1185326, 1178029, 1171275, 1164993, 1159122, 1153614,
    1148428, 1143529, 1138889, 1134483, 1130288, 1126286, 1122462, 1118799, 1115286, 1111911,
    1108664, 1105536, 1102520, 1099607, 1096790, 1094065, 1091426, 1088866, 1086383, 1083971,
    1081628, 1079348, 1077129, 1074968, 1072863, 1070809, 1068806, 1066850, 1064940, 1063073,
    1061248, 1059463, 1057716, 1056006, 1054331, 1052690, 1051081, 1049504, 1047957, 1046440,
    1044950, 1043487, 1042051, 1040640, 1039253, 1037890, 1036550, 1035232, 1033936, 1032660,
    1031405, 1030169, 1028952, 1027753, 1026572, 1025409, 1024263, 1023133, 1022019, 1020920,
    1019837, 1018769, 1017715, 1016675, 1015648, 1014635, 1013635, 1012647, 1011672, 1010709,
    1009758, 1008818, 1007890, 1006972, 1006065, 1005169, 1004283, 1003407, 1002541, 1001684,
    1000837, 1000000, 999171, 998351, 997539, 996736, 995942, 995156, 994377, 993607,
    992844, 992088, 991341, 990600, 989866, 989140, 988420, 987707, 987001, 986301,
    985608, 984921, 984240, 983565, 982896, 982233, 981576, 980924, 980278, 979638,
    979003, 978373, 977749, 977129, 976515, 975905, 975301, 974701, 974106, 973516,
    972931, 972350, 971773, 971201, 970633, 970070, 969510, 968955, 968404, 967857,
    967314, 966775, 966240, 965709, 965181, 964657, 964137, 963621, 963108, 962598,
    962092, 961590, 961090, 960595, 960102, 959613, 959127, 958644, 958164, 957688,
    957214, 956744, 956276, 955812, 955350, 954891, 954436, 953982, 953532, 953085,
    952640, 952198, 951758, 951321, 950887, 950455, 950026, 949599, 949175, 948753,
    948334, 947917, 947502, 947090, 946680, 946273, 945867, 945464, 945063, 944665,
    944268, 943874, 943482, 943091, 942703, 942317, 941934, 941552, 941172, 940794,
    940418, 940044, 939672 >>,
  <<
    1493801, 1467799, 1444667, 1423868, 1404999, 1387752, 1371886, 1357208, 1343564, 1330825,
    1318887, 1307660, 1297070, 1287052, 1277552, 1268522, 1259921, 1251712, 1243863, 1236346,
    1229137, 1222211, 1215550, 1209135, 1202950, 1196979, 1191210, 1185631, 1180229, 1174995,
    1169919, 1164993, 1160208, 1155558, 1151035, 1146633, 1142346, 1138169, 1134097, 1130124,
    1126247, 1122462, 1118763, 1115148, 1111614, 1108156, 1104772, 1101459, 1098215, 1095036,
    1091921, 1088866, 1085871, 1082932, 1080048, 1077217, 1074437, 1071706, 1069024, 1066387,
    1063796, 1061248, 1058742, 1056277, 1053851, 1051464, 1049115, 1046801, 1044523, 1042279,
    1040068, 1037890, 1035744, 1033628, 1031542, 1029485, 1027456, 1025455, 1023481, 1021534,
    1019612, 1017715, 1015842, 1013993, 1012168, 1010365, 1008585, 1006826, 1005089, 1003372,
    1001676, 1000000, 998342, 996705, 995085, 993484, 991901, 990335, 988786, 987255,
    985739, 984240, 982757, 981289, 979836, 978398, 976975, 975566, 974172, 972791,
    971424, 970070, 968729, 967401, 966086, 964783, 963492, 962213, 960946, 959691,
    958447, 957214, 955993, 954782, 953582, 952392, 951212, 950043, 948884, 947734,
    946594, 945464, 944343, 943232, 942129, 941036, 939951, 938875, 937807, 936748,
    935697, 934655, 933620, 932594, 931575, 930564, 929561, 928565, 927577, 926596,
    925622, 924655, 923695, 922743, 921797, 920858, 919925, 918999, 918080, 917167,
    916260, 915359, 914465, 913577, 912694, 911818, 910948, 910083, 909224, 908371,
    907523, 906681, 905844, 905012, 904186, 903365, 902550, 901739, 900934, 900133,
    899338, 898547, 897761, 896980, 896204, 895432, 894665, 893903, 893145, 892392,
    891643, 890898, 890158, 889422, 888690, 887963, 887239, 886520, 885805, 885094,
    884386, 883683, 882984 >>,
  <<
    1825741, 1778279, 1736408, 1699044, 1665383, 1634812, 1606856, 1581138, 1557355, 1535259,
    1514647, 1495348, 1477219, 1460139, 1444002, 1428720, 1414213, 1400414, 1387263, 1374708,
    1362700, 1351200, 1340169, 1329573, 1319384, 1309574, 1300118, 1290994, 1282181, 1273661,
    1265417, 1257433, 1249695, 1242188, 1234903, 1227826, 1220947, 1214256, 1207745, 1201405,
    1195228, 1189207, 1183334, 1177603, 1172009, 1166545, 1161206, 1155987, 1150883, 1145890,
    1141003, 1136219, 1131533, 1126943, 1122444, 1118033, 1113708, 1109466, 1105302, 1101216,
    1097204, 1093265, 1089395, 1085592, 1081855, 1078181, 1074569, 1071017, 1067523, 1064085,
    1060701, 1057371, 1054092, 1050864, 1047684, 1044552, 1041466, 1038425, 1035428, 1032474,
    1029561, 1026690, 1023857, 1021064, 1018308, 1015589, 1012905, 1010257, 1007643, 1005063,
    1002515, 1000000, 997515, 995061, 992637, 990242, 987876, 985538, 983227, 980943,
    978685, 976454, 974247, 972065, 969907, 967773, 965662, 963574, 961509, 959465,
    957443, 955442, 953462, 951502, 949562, 947642, 945741, 943859, 941996, 940150,
    938323, 936513, 934721, 932946, 931187, 929445, 927719, 926009, 924314, 922635,
    920971, 919322, 917688, 916068, 914462, 912870, 911292, 909728, 908177, 906639,
    905114, 903602, 902102, 900614, 899139, 897676, 896225, 894785, 893357, 891940,
    890534, 889139, 887755, 886382, 885020, 883667, 882325, 880994, 879672, 878360,
    877058, 875765, 874482, 873208, 871943, 870688, 869441, 868204, 866975, 865754,
    864543, 863340, 862145, 860958, 859779, 858609, 857446, 856291, 855144, 854005,
    852873, 851748, 850631, 849522, 848419, 847324, 846235, 845154, 844079, 843011,
    841950, 840896, 839848, 838807, 837772, 836743, 835721, 834705, 833695, 832691,
    831693, 830701, 829715 >> >>

\* <<lo, hi>> in millionths with lo <= 1 / (base/100)^(index/12) <= hi
discountFactor(base, index) ==
  IF index = 0 \/ base = 100
  THEN <<Scale, Scale>>
  ELSE <<DiscountFloor[index][base - 8], DiscountFloor[index][base - 8] + 1>>

\* <<lo, hi>> in millionths with lo <= npv <= hi, for
\* npv = cashFlows.reduce((sum, cf, index) => sum + cf / Math.pow(1 + irr, index / 12), 0)
\* over the first count cash flows
RECURSIVE npvBounds(_, _, _)
npvBounds(cashFlows, rate, count) ==
  IF count = 0 THEN <<0, 0>>
  ELSE LET sum == npvBounds(cashFlows, rate, count - 1)
           cf == cashFlows[count]
           f == discountFactor(100 + rate, count - 1)
       IN  IF cf >= 0
           THEN <<sum[1] + cf * f[1], sum[2] + cf * f[2]>>
           ELSE <<sum[1] + cf * f[2], sum[2] + cf * f[1]>>

\* What one loop body can do at this rate: "break" when Math.abs(npv) < 0.01,
\* else "up" when npv > 0, else "down".  One outcome wherever the bracket
\* decides the comparisons, which is everywhere in the sequences explored.
npvOutcomes(cashFlows, rate) ==
  LET b == npvBounds(cashFlows, rate, Len(cashFlows))
      threshold == Scale \div 100
  IN  {o \in {"break", "up", "down"} :
         \/ o = "break" /\ b[1] < threshold /\ b[2] > -threshold
         \/ o = "up" /\ b[2] >= threshold
         \/ o = "down" /\ b[1] <= -threshold}

\* Variant: the rate moves by two points
nextRateTwoPoints(rate, outcome) == IF outcome = "up" THEN rate + 2 ELSE rate - 2

\* Variant: the rate moves against the sign of the NPV
nextRateReversed(rate, outcome) == IF outcome = "up" THEN rate - 1 ELSE rate + 1

\* irr += npv > 0 ? 0.01 : -0.01
nextRate(rate, outcome) == IF outcome = "up" THEN rate + 1 ELSE rate - 1

\* let irr = 0.1
startRate == 10

\* for (let i = 0; i < 100; i++)
maxIterations == 100

(***************************************************************************)
(* Inputs the form layer can supply (a bounded sample of each group).      *)
(***************************************************************************)
PurchaseMethods == {"cash", "loan", "lease-fmv", "lease-capital", "promo-0"}

DeviceSet ==
  [msrp : {8000}, discount : {1000}, accessories : {300}, shippingInstall : {200},
   depreciationMethod : {"straight-line", "macrs"}, depreciationLife : {5},
   salvageValue : {300}, taxRate : {25}]

DownPayments ==
  {[type |-> "percent", amount |-> 20], [type |-> "dollar", amount |-> 500],
   [type |-> "percent", amount |-> 100], [type |-> "dollar", amount |-> 8000]}

AprSet == {0, 6, 12}

FinancingSet ==
  {[purchaseMethod |-> m, downPayment |-> d.amount, downPaymentType |-> d.type,
    apr |-> a, termMonths |-> t] :
     m \in PurchaseMethods, d \in DownPayments, a \in AprSet, t \in 1..MaxTerm}

FlatSeasonality == [i \in 1..12 |-> 100]

PeakSeasonality == [i \in 1..12 |-> IF i % 3 = 1 THEN 100 ELSE IF i % 3 = 2 THEN 150 ELSE 50]

UtilizationSet ==
  {[openDaysPerMonth |-> 20, treatmentsPerDay |-> 5, utilizationRamp |-> <<50>>,
    noShowRate |-> 0, avgTreatmentTime |-> 30, seasonality |-> FlatSeasonality],
   [openDaysPerMonth |-> 20, treatmentsPerDay |-> 1, utilizationRamp |-> <<50, 80>>,
    noShowRate |-> 50, avgTreatmentTime |-> 30, seasonality |-> PeakSeasonality]}

PricingSet ==
  [listPricePerTreatment : {100}, discountPercent : {10}, membershipMRR : {100},
   membershipPercent : {20}, upsellAvgPerTx : {20}, upsellAttachRate : {50}]

VariableCostsSet ==
  [consumables : {5}, disposables : {5}, clinicalTimeCost : {20}, roomTimeOverhead : {10},
   paymentProcessingPercent : {5}, paymentProcessingFixed : {1}]

FixedOpexSet ==
  [marketingBudget : {100, 900}, staffSalaryAllocation : {80}, rentAllocation : {70},
   insurance : {20}, softwareEMR : {30}, maintenancePostWarranty : {30},
   calibrationService : {15}, downtimeReserve : {5}]

CalculatorInputs ==
  [device : DeviceSet, financing : FinancingSet, utilization : UtilizationSet,
   pricing : PricingSet, variableCosts : VariableCostsSet, fixedOpex : FixedOpexSet]

(***************************************************************************)
(* Projection driver and KPI pass as a state machine.                      *)
(***************************************************************************)
VARIABLES inputs, months, month, results, previousBalance, previousCumulativeCash, kpis, pc

\* State of one call of calculateIRR: its argument, irr * 100, the loop
\* counter i, the number of NPV evaluations made so far, and its position
VARIABLES cashFlows, irr, iteration, evaluations, ipc

projectionVars ==
  <<inputs, months, month, results, previousBalance, previousCumulativeCash, kpis, pc>>

irrVars == <<cashFlows, irr, iteration, evaluations, ipc>>

\* What a caller of the engine holds.  earlier: the arguments and the return
\* value of the previous call of calculateAllResults (<<>> before the second
\* call).  appInputs, appResults, appKpis: the useState cells of AppContent;
\* effect: the position of its recompute effect.
VARIABLES earlier, appInputs, appResults, appKpis, effect

callVars == <<earlier>>

appVars == <<appInputs, appResults, appKpis, effect>>

vars == <<projectionVars, irrVars, callVars, appVars>>

\* The engine is run on its own: no previous call, no application around it
Standalone ==
  /\ earlier = <<>>
  /\ appInputs = <<>>
  /\ appResults = <<>>
  /\ appKpis = <<>>
  /\ effect = "none"

\* No call of calculateIRR is in progress
IrrIdle ==
  /\ cashFlows = <<>>
  /\ irr = startRate
  /\ iteration = 0
  /\ evaluations = 0
  /\ ipc = "idle"

Init ==
  /\ inputs \in CalculatorInputs
  /\ months \in 1..MaxMonths
  /\ month = 1
  /\ results = <<>>
  /\ previousBalance = Zero
  /\ previousCumulativeCash = Zero
  /\ kpis = <<>>
  /\ pc = "loop"
  /\ IrrIdle
  /\ Standalone

\* Variant: the prior state is never carried into the next iteration
LoopIterationStalePrior ==
  /\ pc = "loop"
  /\ month <= months
  /\ results' = Append(results, calculateMonthlyResults(inputs, month, previousBalance,
                                                        previousCumulativeCash))
  /\ month' = month + 1
  /\ UNCHANGED <<inputs, months, kpis, pc, previousBalance, previousCumulativeCash, irrVars, callVars, appVars>>

\* Variant: the step is given the number of months left instead of the month
LoopIterationCountsDown ==
  /\ pc = "loop"
  /\ month <= months
  /\ LET result == calculateMonthlyResults(inputs, months - month + 1, previousBalance,
                                           previousCumulativeCash)
     IN  /\ results' = Append(results, result)
         /\ previousBalance' = result.loanBalance
         /\ previousCumulativeCash' = result.cumulativeCash
  /\ month' = month + 1
  /\ UNCHANGED <<inputs, months, kpis, pc, irrVars, callVars, appVars>>

\* One iteration of the for loop of calculateAllResults
LoopIteration ==
  /\ pc = "loop"
  /\ month <= months
  /\ LET result == calculateMonthlyResults(inputs, month, previousBalance,
                                           previousCumulativeCash)
     IN  /\ results' = Append(results, result)
         /\ previousBalance' = result.loanBalance
         /\ previousCumulativeCash' = result.cumulativeCash
  /\ month' = month + 1
  /\ UNCHANGED <<inputs, months, kpis, pc, irrVars, callVars, appVars>>

\* The loop condition fails: calculateAllResults returns results
LoopExit ==
  /\ pc = "loop"
  /\ month > months
  /\ pc' = "returned"
  /\ UNCHANGED <<inputs, months, month, results, previousBalance, previousCumulativeCash, kpis, irrVars, callVars, appVars>>

\* calculateKPIs on the returned sequence
KPIPass ==
  /\ pc = "returned"
  /\ kpis' = <<calculateKPIs(results, inputs)>>
  /\ pc' = "done"
  /\ UNCHANGED <<inputs, months, month, results, previousBalance, previousCumulativeCash, irrVars, callVars, appVars>>

Next == LoopIteration \/ LoopExit \/ KPIPass

Spec == Init /\ [][Next]_vars

(***************************************************************************)
(* The same driver over a horizon of more than six years, for the         *)
(* properties of the ramp, of the seasonal cycle and of depreciation.      *)
(***************************************************************************)
LongMonths == 74

RisingSeasonality == [i \in 1..12 |-> 40 + 10 * i]

LongRamps == {<<>>, <<50>>, <<50, 80>>, [i \in 1..14 |-> 30 + 5 * i]}

\* utilization of defaultInputs
DefaultUtilization ==
  [openDaysPerMonth |-> 22, treatmentsPerDay |-> 15,
   utilizationRamp |-> <<40, 60, 80, 90, 95, 100>>, noShowRate |-> 5,
   avgTreatmentTime |-> 30, seasonality |-> FlatSeasonality]

LongUtilizationSet ==
  [openDaysPerMonth : {20}, treatmentsPerDay : {5}, utilizationRamp : LongRamps,
   noShowRate : {0}, avgTreatmentTime : {30},
   seasonality : {RisingSeasonality, PeakSeasonality}]
    \cup {DefaultUtilization}

LongDeviceSet ==
  [msrp : {8000}, discount : {1000}, accessories : {300}, shippingInstall : {200},
   depreciationMethod : {"straight-line", "macrs"}, depreciationLife : {1, 5},
   salvageValue : {300}, taxRate : {25}]

LongInputs ==
  {x \in [device : LongDeviceSet, financing : FinancingSet, utilization : LongUtilizationSet,
          pricing : PricingSet, variableCosts : VariableCostsSet, fixedOpex : FixedOpexSet] :
     /\ x.financing.purchaseMethod = "cash"
     /\ x.financing.downPayment = 20
     /\ x.financing.apr = 0
     /\ x.financing.termMonths = 1
     /\ x.fixedOpex.marketingBudget = 100}

\* calculateAllResults(inputs, months) is entered with a long horizon
InitLong ==
  /\ inputs \in LongInputs
  /\ months = LongMonths
  /\ month = 1
  /\ results = <<>>
  /\ previousBalance = Zero
  /\ previousCumulativeCash = Zero
  /\ kpis = <<>>
  /\ pc = "loop"
  /\ IrrIdle
  /\ Standalone

SpecLong == InitLong /\ [][Next]_vars

(***************************************************************************)
(* Two calls of calculateAllResults in a row, the second with the same     *)
(* inputs or with another financing group, and with any horizon.           *)
(***************************************************************************)
CallFinancingSet ==
  {f \in FinancingSet :
     /\ f.downPaymentType = "percent"
     /\ f.downPayment = 20
     /\ f.apr = 6
     /\ f.termMonths <= 2}

CallInputs ==
  {x \in CalculatorInputs :
     /\ x.financing \in CallFinancingSet
     /\ x.fixedOpex.marketingBudget = 100}

InitCalls ==
  /\ inputs \in CallInputs
  /\ months \in 1..MaxMonths
  /\ month = 1
  /\ results = <<>>
  /\ previousBalance = Zero
  /\ previousCumulativeCash = Zero
  /\ kpis = <<>>
  /\ pc = "loop"
  /\ IrrIdle
  /\ Standalone

\* Variant: the running state of the first call survives into the second
SecondCallKeepsState ==
  /\ pc = "done"
  /\ earlier = <<>>
  /\ earlier' = <<[inputs |-> inputs, months |-> months, results |-> results]>>
  /\ \E f \in CallFinancingSet : inputs' = [inputs EXCEPT !.financing = f]
  /\ months' \in 1..MaxMonths
  /\ month' = 1
  /\ results' = <<>>
  /\ kpis' = <<>>
  /\ pc' = "loop"
  /\ UNCHANGED <<previousBalance, previousCumulativeCash, irrVars, appVars>>

\* The caller keeps what the first call returned and calls again:
\* const results = []; let previousBalance = 0; let previousCumulativeCash = 0
SecondCall ==
  /\ pc = "done"
  /\ earlier = <<>>
  /\ earlier' = <<[inputs |-> inputs, months |-> months, results |-> results]>>
  /\ \E f \in CallFinancingSet : inputs' = [inputs EXCEPT !.financing = f]
  /\ months' \in 1..MaxMonths
  /\ month' = 1
  /\ results' = <<>>
  /\ previousBalance' = Zero
  /\ previousCumulativeCash' = Zero
  /\ kpis' = <<>>
  /\ pc' = "loop"
  /\ UNCHANGED <<irrVars, appVars>>

NextCalls == LoopIteration \/ LoopExit \/ KPIPass \/ SecondCall

SpecCalls == InitCalls /\ [][NextCalls]_vars

(***************************************************************************)
(* AppContent: the inputs, results and kpis cells and the effect that      *)
(* recomputes the last two whenever inputs is replaced.  Event handlers    *)
(* and the effect body run to completion, so inputs cannot change while    *)
(* the effect body is running; the two setters called in the effect body   *)
(* are applied in one update.                                              *)
(***************************************************************************)

\* calculateAllResults(inputs, 60)
AppMonths == 60

\* The inputs AppContent is mounted with
AppInitialInputs ==
  {x \in CallInputs :
     /\ x.financing.purchaseMethod = "loan"
     /\ x.financing.termMonths = 2
     /\ x.device.depreciationMethod = "macrs"}

\* Values the form sends for financing.purchaseMethod and utilization.noShowRate
AppPurchaseMethods == {"cash", "loan", "promo-0"}

AppNoShowRates == {0, 50}

\* useState(defaultInputs), useState([]), useState(null); the effect is due
\* after the first render
InitApp ==
  /\ appInputs \in AppInitialInputs
  /\ appResults = <<>>
  /\ appKpis = <<>>
  /\ effect = "pending"
  /\ earlier = <<>>
  /\ inputs = appInputs
  /\ months = 0
  /\ month = 1
  /\ results = <<>>
  /\ previousBalance = Zero
  /\ previousCumulativeCash = Zero
  /\ kpis = <<>>
  /\ pc = "idle"
  /\ IrrIdle

\* handleInputChange(section, field, value): inputs is replaced by a copy with
\* one field set, which makes the effect due
HandleInputChange ==
  /\ effect \in {"idle", "pending"}
  /\ \/ \E value \in AppPurchaseMethods :
          appInputs' = [appInputs EXCEPT !.financing.purchaseMethod = value]
     \/ \E value \in AppNoShowRates :
          appInputs' = [appInputs EXCEPT !.utilization.noShowRate = value]
  /\ effect' = "pending"
  /\ UNCHANGED <<appResults, appKpis, projectionVars, irrVars, callVars>>

\* The effect body starts: calculateAllResults(inputs, 60) is entered with the
\* inputs of the render the effect belongs to
EffectStart ==
  /\ effect = "pending"
  /\ effect' = "running"
  /\ inputs' = appInputs
  /\ months' = AppMonths
  /\ month' = 1
  /\ results' = <<>>
  /\ previousBalance' = Zero
  /\ previousCumulativeCash' = Zero
  /\ kpis' = <<>>
  /\ pc' = "loop"
  /\ UNCHANGED <<appInputs, appResults, appKpis, irrVars, callVars>>

\* Variant: only setResults is called
EffectCommitResultsOnly ==
  /\ effect = "running"
  /\ pc = "done"
  /\ appResults' = results
  /\ effect' = "idle"
  /\ pc' = "idle"
  /\ UNCHANGED <<appInputs, appKpis, inputs, months, month, results, previousBalance,
                 previousCumulativeCash, kpis, irrVars, callVars>>

\* setResults(monthlyResults); setKpis(calculatedKPIs)
EffectCommit ==
  /\ effect = "running"
  /\ pc = "done"
  /\ appResults' = results
  /\ appKpis' = kpis
  /\ effect' = "idle"
  /\ pc' = "idle"
  /\ UNCHANGED <<appInputs, inputs, months, month, results, previousBalance,
                 previousCumulativeCash, kpis, irrVars, callVars>>

NextApp ==
  \/ HandleInputChange
  \/ EffectStart
  \/ LoopIteration
  \/ LoopExit
  \/ KPIPass
  \/ EffectCommit

SpecApp == InitApp /\ [][NextApp]_vars

TypeOK ==
  /\ pc \in {"idle", "loop", "returned", "done"}
  /\ month \in 1..(months + 1)
  /\ Len(results) = month - 1

(***************************************************************************)
(* calculateIRR(cashFlows), one loop iteration per step.                   *)
(***************************************************************************)
MaxFlows == 3

\* Monthly cash flows the search is run on
Amounts == {-100, -1, 0, 1, 101}

RECURSIVE CashFlowSequences(_)
CashFlowSequences(n) ==
  IF n = 0 THEN {<<>>}
  ELSE LET shorter == CashFlowSequences(n - 1)
       IN  shorter \cup {Append(s, a) : s \in {t \in shorter : Len(t) = n - 1}, a \in Amounts}

\* calculateIRR is entered with some cash-flow sequence; let irr = 0.1
InitIRR ==
  /\ inputs = CHOOSE x \in CalculatorInputs : TRUE
  /\ months = 0
  /\ month = 1
  /\ results = <<>>
  /\ previousBalance = Zero
  /\ previousCumulativeCash = Zero
  /\ kpis = <<>>
  /\ pc = "idle"
  /\ cashFlows \in CashFlowSequences(MaxFlows)
  /\ irr = startRate
  /\ iteration = 0
  /\ evaluations = 0
  /\ ipc = "search"
  /\ Standalone

\* Variant: the loop never breaks on a small NPV
IRRIterationNoBreak ==
  /\ ipc = "search"
  /\ iteration < maxIterations
  /\ evaluations' = evaluations + 1
  /\ \E outcome \in npvOutcomes(cashFlows, irr) \ {"break"} :
       /\ irr' = nextRate(irr, outcome)
       /\ iteration' = iteration + 1
       /\ ipc' = ipc
  /\ UNCHANGED <<projectionVars, cashFlows, callVars, appVars>>

\* One pass through the body of the for loop: evaluate the NPV at the
\* current rate, then break (and return) or move the rate by one point
IRRIteration ==
  /\ ipc = "search"
  /\ iteration < maxIterations
  /\ evaluations' = evaluations + 1
  /\ \E outcome \in npvOutcomes(cashFlows, irr) :
       IF outcome = "break"
       THEN /\ ipc' = "returned"
            /\ UNCHANGED <<irr, iteration>>
       ELSE /\ irr' = nextRate(irr, outcome)
            /\ iteration' = iteration + 1
            /\ ipc' = ipc
  /\ UNCHANGED <<projectionVars, cashFlows, callVars, appVars>>

\* The loop condition i < 100 fails: return irr * 100
IRRReturn ==
  /\ ipc = "search"
  /\ iteration = maxIterations
  /\ ipc' = "returned"
  /\ UNCHANGED <<projectionVars, cashFlows, irr, iteration, evaluations, callVars, appVars>>

NextIRR == IRRIteration \/ IRRReturn

\* The loop is sequential code: a step that can be taken is taken
SpecIRR == InitIRR /\ [][NextIRR]_vars /\ WF_vars(NextIRR)

(***************************************************************************)
(* Vocabulary of the properties: quantities read off the inputs and the    *)
(* records produced so far.                                                *)
(***************************************************************************)
Records == 1..Len(results)

IsLoan == inputs.financing.purchaseMethod = "loan"

IsCash == inputs.financing.purchaseMethod = "cash"

PriorBalance(k) == IF k = 1 THEN Zero ELSE results[k - 1].loanBalance

PriorCumulativeCash(k) == IF k = 1 THEN Zero ELSE results[k - 1].cumulativeCash

AcquisitionCost ==
  Num(inputs.device.msrp - inputs.device.discount + inputs.device.accessories
      + inputs.device.shippingInstall)

ResolvedDownPayment ==
  IF inputs.financing.downPaymentType = "percent"
  THEN RDiv(RMul(AcquisitionCost, Num(inputs.financing.downPayment)), Num(100))
  ELSE Num(inputs.financing.downPayment)

LoanPrincipal == RSub(AcquisitionCost, ResolvedDownPayment)

MonthlyRate == RDiv(Num(inputs.financing.apr), Num(12))

\* r * P / (1 - (1 + r)^-n), or P / n at rate zero
LoanPayment ==
  IF inputs.financing.apr = 0
  THEN RDiv(LoanPrincipal, Num(inputs.financing.termMonths))
  ELSE RDiv(RMul(MonthlyRate, LoanPrincipal),
            RSub(One, RInv(RPow(RAdd(One, MonthlyRate), inputs.financing.termMonths))))

CashFlows == [k \in Records |-> results[k].cashFlow]

FirstNonNegative ==
  CHOOSE i \in Records :
    /\ RGe(results[i].cumulativeCash, Zero)
    /\ \A j \in 1..(i - 1) : RLt(results[j].cumulativeCash, Zero)

SomeNonNegative == \E i \in Records : RGe(results[i].cumulativeCash, Zero)

(***************************************************************************)
(* C1. calculateAllResults(inputs, N) returns exactly N records whose      *)
(* month fields are 1..N in order; record 1 is the monthly step applied to *)
(* the prior state (0, 0) and every record k > 1 is the monthly step       *)
(* applied to the loanBalance and cumulativeCash of record k - 1.          *)
(***************************************************************************)
C1_DriverThreadsState ==
  /\ pc # "loop" => Len(results) = months
  /\ Len(results) <= months
  /\ \A k \in Records :
       /\ results[k].month = k
       /\ results[k] = calculateMonthlyResults(inputs, k, PriorBalance(k),
                                               PriorCumulativeCash(k))

C1_Witness ==
  /\ pc = "returned"
  /\ Len(results) >= 3
  /\ RLt(Zero, results[2].loanBalance)
  /\ results[2].cumulativeCash # Zero

(***************************************************************************)
(* C2. Each record's cumulativeCash is the previous record's               *)
(* cumulativeCash (0 before month 1) plus this record's cashFlow, hence    *)
(* the sum of cashFlow over records 1..k.                                  *)
(***************************************************************************)
C2_CumulativeCashIsRunningSum ==
  \A k \in Records :
    /\ results[k].cumulativeCash = RAdd(PriorCumulativeCash(k), results[k].cashFlow)
    /\ results[k].cumulativeCash = RSum(SubSeq(CashFlows, 1, k))

C2_Witness ==
  /\ pc = "returned"
  /\ Len(results) >= 3
  /\ \A k \in Records : results[k].cashFlow # Zero
  /\ results[3].cumulativeCash # results[3].cashFlow

(***************************************************************************)
(* C3. cashFlow starts from EBITDA - taxes; with method cash, month 1 and  *)
(* only month 1 also subtracts the full acquisition cost; with method      *)
(* loan, month 1 and only month 1 also subtracts the resolved down payment *)
(* and every month subtracts the monthly payment.                          *)
(***************************************************************************)
C3_CashFlowComposition ==
  \A k \in Records :
    LET base == RSub(results[k].ebitda, results[k].taxes)
        investment == IF k = 1 /\ IsCash THEN AcquisitionCost
                      ELSE IF k = 1 /\ IsLoan THEN ResolvedDownPayment
                      ELSE Zero
        payment == IF IsLoan THEN LoanPayment ELSE Zero
    IN  results[k].cashFlow = RSub(RSub(base, investment), payment)

C3_Witness ==
  /\ pc = "returned"
  /\ IsLoan
  /\ Len(results) >= 2
  /\ RLt(Zero, ResolvedDownPayment)
  /\ RLt(Zero, LoanPayment)
  /\ results[2].cashFlow = RSub(RSub(results[2].ebitda, results[2].taxes), LoanPayment)

C5_LoanBalanceNonIncreasing ==
  (IsLoan /\ RLt(Zero, LoanPrincipal) /\ inputs.financing.apr >= 0) =>
    \A k \in Records :
      RLe(results[k].loanBalance, IF k = 1 THEN LoanPrincipal ELSE results[k - 1].loanBalance)

C5_Witness ==
  /\ pc = "returned"
  /\ IsLoan
  /\ inputs.financing.apr > 0
  /\ Len(results) >= 3
  /\ RLt(results[1].loanBalance, LoanPrincipal)
  /\ RLt(results[2].loanBalance, results[1].loanBalance)
  /\ RLt(Zero, results[2].loanBalance)

C7_TaxesFlooredAtZero ==
  \A k \in Records :
    LET due == RMul(results[k].ebit, RDiv(Num(inputs.device.taxRate), Num(100)))
    IN  /\ results[k].taxes = (IF RLt(due, Zero) THEN Zero ELSE due)
        /\ RGe(results[k].taxes, Zero)
        /\ RLe(results[k].ebit, Zero) =>
             (results[k].taxes = Zero /\ results[k].netIncome = results[k].ebit)

C7_Witness ==
  /\ pc = "returned"
  /\ inputs.device.taxRate > 0
  /\ \E k \in Records : RLt(results[k].ebit, Zero) /\ results[k].taxes = Zero

(***************************************************************************)
(* C8. Every record is internally consistent: grossProfit = revenue -      *)
(* variableCosts, ebitda = grossProfit - fixedOpex, ebit = ebitda -        *)
(* depreciation, netIncome = ebit - taxes, with fixedOpex the sum of all   *)
(* fixed-opex buckets of the inputs.                                       *)
(***************************************************************************)
C8_RecordConsistent ==
  \A k \in Records :
    LET r == results[k]
        f == inputs.fixedOpex
    IN  /\ r.grossProfit = RSub(r.revenue, r.variableCosts)
        /\ r.ebitda = RSub(r.grossProfit, r.fixedOpex)
        /\ r.ebit = RSub(r.ebitda, r.depreciation)
        /\ r.netIncome = RSub(r.ebit, r.taxes)
        /\ r.fixedOpex = Num(f.marketingBudget + f.staffSalaryAllocation + f.rentAllocation
                             + f.insurance + f.softwareEMR + f.maintenancePostWarranty
                             + f.calibrationService + f.downtimeReserve)

C8_Witness ==
  /\ pc = "returned"
  /\ Len(results) >= 2
  /\ \A k \in Records :
       /\ RLt(Zero, results[k].taxes)
       /\ RLt(Zero, results[k].depreciation)
       /\ RLt(Zero, results[k].variableCosts)
       /\ RLt(Zero, results[k].interest)

(***************************************************************************)
(* C9. For a non-empty record sequence of length N, paybackMonths is the   *)
(* 1-based index of the first record whose cumulativeCash is >= 0, and is  *)
(* N when no record has cumulativeCash >= 0; it is always in 1..N.         *)
(***************************************************************************)
C9_PaybackFirstNonNegativeOrHorizon ==
  pc = "done" =>
    /\ kpis[1].paybackMonths \in 1..Len(results)
    /\ kpis[1].paybackMonths = (IF SomeNonNegative THEN FirstNonNegative ELSE Len(results))

C9_Witness ==
  /\ pc = "done"
  /\ Len(results) >= 3
  /\ SomeNonNegative
  /\ kpis[1].paybackMonths = 2

(***************************************************************************)
(* C10, as stated: when every cash flow after month 1 is non-negative,     *)
(* paybackMonths is 1 if and only if the month-1 cumulativeCash is >= 0,   *)
(* and otherwise it is the first index at which cumulativeCash crosses to  *)
(* >= 0.  Refuted by a horizon in which cumulativeCash never reaches 0.    *)
(***************************************************************************)
LaterCashFlowsNonNegative ==
  \A k \in Records : k >= 2 => RGe(results[k].cashFlow, Zero)

C10_AsStated ==
  (pc = "done" /\ LaterCashFlowsNonNegative) =>
    LET p == kpis[1].paybackMonths
    IN  /\ (p = 1) <=> RGe(results[1].cumulativeCash, Zero)
        /\ RLt(results[1].cumulativeCash, Zero) =>
             /\ p \in Records
             /\ RGe(results[p].cumulativeCash, Zero)
             /\ \A j \in 1..(p - 1) : RLt(results[j].cumulativeCash, Zero)

(***************************************************************************)
(* C10, amended: when every cash flow after month 1 is non-negative and    *)
(* some record has cumulativeCash >= 0, paybackMonths is 1 if and only if  *)
(* the month-1 cumulativeCash is >= 0 and otherwise is the first index at  *)
(* which cumulativeCash crosses to >= 0; when no record has                *)
(* cumulativeCash >= 0, paybackMonths is the horizon N.                    *)
(***************************************************************************)
C10_PaybackMonotone ==
  (pc = "done" /\ LaterCashFlowsNonNegative) =>
    LET p == kpis[1].paybackMonths
    IN  IF SomeNonNegative
        THEN /\ (p = 1) <=> RGe(results[1].cumulativeCash, Zero)
             /\ RLt(results[1].cumulativeCash, Zero) =>
                  /\ p \in Records
                  /\ RGe(results[p].cumulativeCash, Zero)
                  /\ \A j \in 1..(p - 1) : RLt(results[j].cumulativeCash, Zero)
        ELSE p = Len(results)

C10_Witness ==
  /\ pc = "done"
  /\ LaterCashFlowsNonNegative
  /\ Len(results) >= 3
  /\ RLt(results[1].cumulativeCash, Zero)
  /\ kpis[1].paybackMonths = 2
  /\ RGe(results[2].cumulativeCash, Zero)

NpvAt(rate) == npvBounds(cashFlows, rate, Len(cashFlows))

Tolerance == Scale \div 100

NpvSmall(rate) == NpvAt(rate)[1] > -Tolerance /\ NpvAt(rate)[2] < Tolerance

NpvPositive(rate) == NpvAt(rate)[1] > 0

NpvNegative(rate) == NpvAt(rate)[2] < 0

\* Negative first, then sustained positive
OneSignChange ==
  \E j \in 1..(Len(cashFlows) - 1) :
    /\ \A k \in 1..j : cashFlows[k] < 0
    /\ \A k \in (j + 1)..Len(cashFlows) : cashFlows[k] > 0

(***************************************************************************)
(* C12: the IRR search always terminates.  It starts at 10%, evaluates the *)
(* NPV at the current rate at most 100 times, stops at the first           *)
(* evaluation with |NPV| < 0.01 and returns that rate unchanged, otherwise *)
(* moves the rate by exactly one percentage point per evaluation (up when  *)
(* NPV > 0, down otherwise), and returns the rate after the 100th move in  *)
(* the same way as a converged one.                                        *)
(***************************************************************************)
C12_SearchShape ==
  /\ ipc = "search" /\ iteration < maxIterations /\ NpvSmall(irr) =>
       /\ ipc' = "returned"
       /\ irr' = irr
       /\ evaluations' = evaluations + 1
  /\ ipc = "search" /\ iteration < maxIterations /\ ~NpvSmall(irr) =>
       /\ ipc' = "search"
       /\ irr' = IF NpvPositive(irr) THEN irr + 1 ELSE irr - 1
       /\ iteration' = iteration + 1
       /\ evaluations' = evaluations + 1
  /\ ipc = "search" /\ iteration = maxIterations =>
       /\ ipc' = "returned"
       /\ irr' = irr
       /\ evaluations' = evaluations
  /\ ipc = "returned" => UNCHANGED irrVars

C12_IrrSearchTerminates ==
  /\ [](/\ evaluations = 0 => irr = 10
        /\ evaluations <= 100
        /\ evaluations = iteration + (IF ipc = "returned" /\ iteration < 100 THEN 1 ELSE 0)
        /\ Abs(irr - 10) <= iteration)
  /\ [][C12_SearchShape]_vars
  /\ <>(ipc = "returned")

C12_Witness ==
  /\ ipc = "returned"
  /\ evaluations = 100
  /\ iteration = 100
  /\ ~NpvSmall(irr)
  /\ irr = 12

(***************************************************************************)
(* C13, as stated: for every cash-flow sequence with exactly one sign      *)
(* change (negative first, then sustained positive) the search returns a   *)
(* rate at which the NPV of the sequence is within 0.01 of zero.           *)
(***************************************************************************)
C13_AsStated ==
  (ipc = "returned" /\ OneSignChange) => NpvSmall(irr)

(***************************************************************************)
(* C13, amended: for such a sequence the search returns either a rate at   *)
(* which |NPV| < 0.01, or, after 100 moves, a whole-percent rate next to   *)
(* the sign change of the NPV (the NPV at the returned rate and at a rate  *)
(* one point away have opposite signs), or the end of its range: 110% with *)
(* the NPV still positive at 109%, or -90% with the NPV still negative at  *)
(* -89%.                                                                   *)
(***************************************************************************)
C13_ReturnsNearestPoint ==
  (ipc = "returned" /\ OneSignChange) =>
    \/ iteration < 100 /\ NpvSmall(irr)
    \/ /\ iteration = 100
       /\ \/ NpvPositive(irr) /\ NpvNegative(irr + 1)
          \/ NpvNegative(irr) /\ NpvPositive(irr - 1)
          \/ irr = 110 /\ NpvPositive(109)
          \/ irr = -90 /\ NpvNegative(-89)

C13_Witness ==
  /\ ipc = "returned"
  /\ OneSignChange
  /\ cashFlows = <<-100, 101>>
  /\ iteration = 100
  /\ irr = 12
  /\ NpvPositive(12)
  /\ NpvNegative(13)

(***************************************************************************)
(* C14, as stated: every percentage-valued input is divided by 100 where   *)
(* it enters a formula; in particular the monthly rate used for the loan   *)
(* payment and for interest is (APR/100)/12, so each month's interest on a *)
(* loan is the balance the month starts with times (APR/100)/12 and the    *)
(* payment is PMT at that rate.  The source uses APR/12.                   *)
(***************************************************************************)
C14_AsStated ==
  IsLoan =>
    LET annual == RDiv(Num(inputs.financing.apr), Num(100))
    IN  /\ \A k \in Records :
             results[k].interest =
               RMul(IF k = 1 THEN LoanPrincipal ELSE PriorBalance(k),
                    RDiv(annual, Num(12)))
        /\ pc = "done" =>
             kpis[1].monthlyPayment =
               calculatePMT(annual, inputs.financing.termMonths, LoanPrincipal)

(***************************************************************************)
(* C15: KPIs.monthlyPayment is 0 for every purchase method other than      *)
(* loan.  For a loan it equals the payment the monthly step subtracts from *)
(* cash flow in every month of the same run: both are PMT over the same    *)
(* term and the same principal = total acquisition cost - down payment,    *)
(* the down payment resolved as a percentage of the acquisition cost or as *)
(* a flat amount according to downPaymentType, month 1 included.           *)
(***************************************************************************)
PaymentInCashFlow(k) ==
  RSub(RSub(RSub(results[k].ebitda, results[k].taxes), results[k].cashFlow),
       IF k = 1 THEN ResolvedDownPayment ELSE Zero)

C15_KpiPaymentIsStepPayment ==
  pc = "done" =>
    IF IsLoan
    THEN /\ kpis[1].monthlyPayment = LoanPayment
         /\ \A k \in Records : PaymentInCashFlow(k) = kpis[1].monthlyPayment
    ELSE kpis[1].monthlyPayment = Zero

C15_Witness ==
  /\ pc = "done"
  /\ IsLoan
  /\ Len(results) >= 2
  /\ inputs.financing.downPaymentType = "percent"
  /\ inputs.financing.apr > 0
  /\ RLt(Zero, kpis[1].monthlyPayment)
  /\ PaymentInCashFlow(1) = kpis[1].monthlyPayment
  /\ PaymentInCashFlow(2) = kpis[1].monthlyPayment

(***************************************************************************)
(* C16: breakevenTreatmentsPerDay = ((sum of fixed-opex buckets +          *)
(* monthlyPayment) / grossMarginPerTreatment) / openDaysPerMonth, where    *)
(* grossMarginPerTreatment is netPrice - variableCostPerTreatment exactly  *)
(* as the monthly step computes them for the same inputs: the margin of a  *)
(* record per treatment, membership revenue set aside.                     *)
(***************************************************************************)
MembershipRevenue ==
  RMul(Num(inputs.pricing.membershipMRR),
       RDiv(Num(inputs.pricing.membershipPercent), Num(100)))

StepMarginPerTreatment(k) ==
  RDiv(RSub(RSub(results[k].revenue, MembershipRevenue), results[k].variableCosts),
       results[k].treatments)

C16_BreakevenUsesStepMargin ==
  pc = "done" =>
    \A k \in Records :
      results[k].treatments # Zero =>
        kpis[1].breakevenTreatmentsPerDay =
          RDiv(RDiv(RAdd(results[k].fixedOpex, kpis[1].monthlyPayment),
                    StepMarginPerTreatment(k)),
               Num(inputs.utilization.openDaysPerMonth))

C16_Witness ==
  /\ pc = "done"
  /\ IsLoan
  /\ Len(results) >= 2
  /\ results[1].treatments # Zero
  /\ results[1].treatments # results[2].treatments
  /\ inputs.variableCosts.paymentProcessingPercent > 0
  /\ inputs.pricing.discountPercent > 0
  /\ RLt(Zero, kpis[1].monthlyPayment)
  /\ RLt(Zero, kpis[1].breakevenTreatmentsPerDay)

(***************************************************************************)
(* C17: KPIs.dscr is the arithmetic mean of ebitda over all records, the   *)
(* ramp-up months included, divided by max(monthlyPayment, 1).  The        *)
(* denominator is never below 1, and with no financing dscr is the mean    *)
(* EBITDA itself.                                                          *)
(***************************************************************************)
MeanEbitda ==
  RDiv(RSum([k \in Records |-> results[k].ebitda]), Num(Len(results)))

DscrDenominator ==
  IF RLt(kpis[1].monthlyPayment, One) THEN One ELSE kpis[1].monthlyPayment

C17_DscrIsMeanEbitdaOverPayment ==
  pc = "done" =>
    /\ RMul(kpis[1].dscr, DscrDenominator) = MeanEbitda
    /\ RLe(kpis[1].monthlyPayment, One) => kpis[1].dscr = MeanEbitda
    /\ ~IsLoan => kpis[1].dscr = MeanEbitda

C17_Witness ==
  /\ pc = "done"
  /\ IsLoan
  /\ Len(results) >= 3
  /\ results[1].ebitda # results[Len(results)].ebitda
  /\ RLt(One, kpis[1].monthlyPayment)
  /\ kpis[1].dscr # MeanEbitda
  /\ kpis[1].dscr # Zero

(***************************************************************************)
(* C18: calculatePMT(0, n, P) is P/n for every n > 0, and for every rate   *)
(* r > 0, n > 0 and P > 0, calculatePMT(r, n, P) x n is strictly greater   *)
(* than P.  Stated of the payment of the run's loan and of every such call *)
(* over the rates, terms and principals of the input sets.                 *)
(***************************************************************************)
PmtRates == {Num(a) : a \in AprSet}

PmtTerms == 1..MaxTerm

PmtPrincipals == {Num(100), Num(6000), Num(7000), LoanPrincipal}

C18_PmtZeroRateAndTotalPaid ==
  (pc = "done" /\ IsLoan) =>
    /\ kpis[1].monthlyPayment =
         calculatePMT(Num(inputs.financing.apr), inputs.financing.termMonths, LoanPrincipal)
    /\ \A r \in PmtRates, n \in PmtTerms, P \in PmtPrincipals :
         /\ r = Zero => calculatePMT(r, n, P) = RDiv(P, Num(n))
         /\ (RLt(Zero, r) /\ RLt(Zero, P)) => RLt(P, RMul(calculatePMT(r, n, P), Num(n)))

C18_Witness ==
  /\ pc = "done"
  /\ IsLoan
  /\ inputs.financing.apr > 0
  /\ inputs.financing.termMonths >= 2
  /\ RLt(Zero, LoanPrincipal)
  /\ RLt(LoanPrincipal, RMul(kpis[1].monthlyPayment, Num(inputs.financing.termMonths)))

(***************************************************************************)
(* Vocabulary of the volume properties: the factors read off a record's    *)
(* treatment count, given the other factor as the inputs state it.         *)
(***************************************************************************)
Ramp == inputs.utilization.utilizationRamp

Seasonality == inputs.utilization.seasonality

BaseTreatments ==
  RMul(RMul(Num(inputs.utilization.openDaysPerMonth), Num(inputs.utilization.treatmentsPerDay)),
       RSub(One, RDiv(Num(inputs.utilization.noShowRate), Num(100))))

StatedRamp(m) == IF m <= Len(Ramp) THEN RDiv(Num(Ramp[m]), Num(100)) ELSE One

StatedSeasonality(m) == RDiv(Num(Seasonality[((m - 1) % 12) + 1]), Num(100))

AppliedSeasonality(k) ==
  RDiv(results[k].treatments, RMul(BaseTreatments, StatedRamp(k)))

AppliedRamp(k) ==
  RDiv(results[k].treatments, RMul(BaseTreatments, StatedSeasonality(k)))

(***************************************************************************)
(* C19: the seasonality factor is 12-periodic.  For every month m >= 1 the *)
(* factor applied to month m is entry (m - 1) mod 12 of the 12-point       *)
(* index, so the factor applied to month m + 12 equals the one applied to  *)
(* month m and every month of the horizon has one.                         *)
(***************************************************************************)
C19_SeasonalityIsTwelvePeriodic ==
  \A k \in Records :
    /\ AppliedSeasonality(k) = StatedSeasonality(k)
    /\ (k + 12) \in Records => AppliedSeasonality(k + 12) = AppliedSeasonality(k)

C19_Witness ==
  /\ Len(results) >= 26
  /\ Seasonality = RisingSeasonality
  /\ AppliedSeasonality(13) = AppliedSeasonality(1)
  /\ AppliedSeasonality(26) = AppliedSeasonality(14)
  /\ AppliedSeasonality(13) # AppliedSeasonality(12)
  /\ AppliedSeasonality(13) # AppliedSeasonality(14)

(***************************************************************************)
(* C20: for every month greater than the length of the ramp array the ramp *)
(* factor is exactly 1.0, for every month m <= ramp length it is           *)
(* ramp[m-1]/100 (0-based), and an empty ramp array gives factor 1.0 for   *)
(* all months.                                                             *)
(***************************************************************************)
C20_RampSaturates ==
  \A k \in Records :
    /\ k > Len(Ramp) => AppliedRamp(k) = One
    /\ k <= Len(Ramp) => AppliedRamp(k) = RDiv(Num(Ramp[k]), Num(100))
    /\ Ramp = <<>> => AppliedRamp(k) = One

C20_Witness ==
  /\ Len(results) >= 15
  /\ Len(Ramp) = 14
  /\ AppliedRamp(14) = Num(1)
  /\ AppliedRamp(13) # One
  /\ AppliedRamp(15) = One

(***************************************************************************)
(* Vocabulary of the depreciation properties.                              *)
(***************************************************************************)
IsMacrs == inputs.device.depreciationMethod = "macrs"

IsStraightLine == inputs.device.depreciationMethod = "straight-line"

\* The fixed rate table, in ten-thousandths
RateTable == <<2000, 3200, 1920, 1152, 1152, 576>>

CumulativeDepreciation(m) ==
  RSum([k \in 1..m |-> results[k].depreciation])

(***************************************************************************)
(* C21: with the accelerated method, depreciation for month m is           *)
(* totalCost x rate[floor((m-1)/12)] / 12 from the fixed 6-entry rate      *)
(* table, salvage value and depreciation life being ignored, and is        *)
(* exactly 0 for every month m >= 73, whatever life was requested.         *)
(***************************************************************************)
C21_MacrsFollowsRateTable ==
  IsMacrs =>
    \A m \in Records :
      results[m].depreciation =
        IF m >= 73 THEN Zero
        ELSE RDiv(RMul(AcquisitionCost, Rat(RateTable[((m - 1) \div 12) + 1], 10000)),
                  Num(12))

C21_Witness ==
  /\ IsMacrs
  /\ inputs.device.depreciationLife = 1
  /\ inputs.device.salvageValue > 0
  /\ Len(results) >= 74
  /\ results[12].depreciation = Num(125)
  /\ results[13].depreciation = Num(200)
  /\ results[72].depreciation = Rat(36, 1)
  /\ results[73].depreciation = Zero
  /\ results[74].depreciation = Zero

(***************************************************************************)
(* C22: with the straight-line method, depreciation is the same amount     *)
(* (totalCost - salvage)/(lifeYears x 12) in every month of the            *)
(* projection, months beyond lifeYears x 12 included, so cumulative        *)
(* depreciation after month m is m times that amount, with no cap at       *)
(* totalCost - salvage.                                                    *)
(***************************************************************************)
StraightLineAmount ==
  RDiv(RSub(AcquisitionCost, Num(inputs.device.salvageValue)),
       Num(inputs.device.depreciationLife * 12))

C22_StraightLineNeverStops ==
  IsStraightLine =>
    \A m \in Records :
      /\ results[m].depreciation = StraightLineAmount
      /\ CumulativeDepreciation(m) = RMul(Num(m), StraightLineAmount)

C22_Witness ==
  /\ IsStraightLine
  /\ inputs.device.depreciationLife = 1
  /\ Len(results) >= 13
  /\ results[13].depreciation = Num(600)
  /\ RLt(RSub(AcquisitionCost, Num(inputs.device.salvageValue)), CumulativeDepreciation(13))

(***************************************************************************)
(* C23: with the default utilization (22 open days, 15 treatments/day, 5%  *)
(* no-show, first ramp entry 40, seasonality 100) the month-1 record's     *)
(* treatments is 22 x 15 x 0.95 x 0.40 x 1.00 = 125.4.                     *)
(***************************************************************************)
C23_DefaultMonthOneTreatments ==
  (inputs.utilization = DefaultUtilization /\ Len(results) >= 1) =>
    results[1].treatments = Rat(1254, 10)

C23_Witness ==
  /\ inputs.utilization = DefaultUtilization
  /\ Len(results) >= 1
  /\ results[1].month = 1
  /\ results[1].treatments = Rat(627, 5)

(***************************************************************************)
(* Vocabulary of the two-call properties.                                  *)
(***************************************************************************)
SecondCallReturned == earlier # <<>> /\ pc \in {"returned", "done"}

First == earlier[1]

(***************************************************************************)
(* C24: the projection is deterministic and restartable.  Two calls of     *)
(* calculateAllResults with equal inputs and equal horizon return          *)
(* field-for-field identical sequences, a call does not modify its inputs  *)
(* (nor its horizon), and a second call is unaffected by the first: it     *)
(* starts from balance 0 and cumulative cash 0 whatever the first left.    *)
(***************************************************************************)
C24_NoEffectOnArguments ==
  pc # "done" => (inputs' = inputs /\ months' = months)

C24_DeterministicRestartable ==
  /\ [](SecondCallReturned /\ inputs = First.inputs /\ months = First.months =>
          results = First.results)
  /\ [](earlier # <<>> /\ Len(results) >= 1 =>
          results[1] = calculateMonthlyResults(inputs, 1, Zero, Zero))
  /\ [][C24_NoEffectOnArguments]_vars

C24_Witness ==
  /\ SecondCallReturned
  /\ inputs = First.inputs
  /\ months = First.months
  /\ IsLoan
  /\ Len(results) >= 3
  /\ results = First.results
  /\ results[3].cumulativeCash # Zero
  /\ results[3].loanBalance = Zero
  /\ results[1].loanBalance # Zero

(***************************************************************************)
(* C28: financing does not influence the profit-and-loss fields.  Two      *)
(* projections whose inputs differ only in the financing group have        *)
(* identical treatments, revenue, variableCosts, grossProfit, fixedOpex,   *)
(* ebitda, depreciation, ebit, taxes and netIncome in every month; only    *)
(* interest, cashFlow, cumulativeCash and loanBalance can differ, and      *)
(* interest is never deducted in ebit or netIncome.                        *)
(***************************************************************************)
ProfitAndLoss(r) ==
  <<r.month, r.treatments, r.revenue, r.variableCosts, r.grossProfit, r.fixedOpex,
    r.ebitda, r.depreciation, r.ebit, r.taxes, r.netIncome>>

DiffersOnlyInFinancing ==
  /\ earlier # <<>>
  /\ [inputs EXCEPT !.financing = First.inputs.financing] = First.inputs

C28_FinancingLeavesProfitAndLoss ==
  /\ DiffersOnlyInFinancing =>
       \A k \in Records :
         k <= Len(First.results) =>
           ProfitAndLoss(results[k]) = ProfitAndLoss(First.results[k])
  /\ \A k \in Records :
       /\ results[k].ebit = RSub(results[k].ebitda, results[k].depreciation)
       /\ results[k].netIncome = RSub(results[k].ebit, results[k].taxes)

C28_Witness ==
  /\ DiffersOnlyInFinancing
  /\ SecondCallReturned
  /\ IsLoan
  /\ First.inputs.financing.purchaseMethod = "cash"
  /\ Len(results) >= 2
  /\ Len(First.results) >= 2
  /\ results[2].interest # Zero
  /\ results[2].cashFlow # First.results[2].cashFlow
  /\ results[2].netIncome = First.results[2].netIncome

(***************************************************************************)
(* C29: projections are prefix-stable.  For the same inputs and any        *)
(* horizons N <= M, the N records of calculateAllResults(inputs, N) are    *)
(* the first N records of calculateAllResults(inputs, M), so the first-12  *)
(* and first-24 slices shown downstream do not depend on the horizon.      *)
(***************************************************************************)
C29_PrefixStable ==
  (SecondCallReturned /\ inputs = First.inputs) =>
    /\ months <= First.months => results = SubSeq(First.results, 1, months)
    /\ First.months <= months => First.results = SubSeq(results, 1, First.months)

C29_Witness ==
  /\ SecondCallReturned
  /\ inputs = First.inputs
  /\ IsLoan
  /\ First.months = 2
  /\ months = 4
  /\ Len(results) = 4
  /\ First.results = SubSeq(results, 1, 2)
  /\ results[3] # results[2]

(***************************************************************************)
(* C26: for the purchase methods lease-fmv, lease-capital and promo-0,     *)
(* every record has interest = 0 and loanBalance = 0 and cashFlow =        *)
(* EBITDA - taxes in every month, month 1 included (no acquisition cost,   *)
(* down payment or payment is subtracted), and KPIs.monthlyPayment is 0;   *)
(* only cash and loan have a cash-flow treatment of their own.             *)
(***************************************************************************)
IsLeaseOrPromo ==
  inputs.financing.purchaseMethod \in {"lease-fmv", "lease-capital", "promo-0"}

PaidOffBefore(k) == k >= 2 /\ results[k - 1].loanBalance = Zero

TotalPaymentSubtracted ==
  RSum([k \in Records |-> PaymentInCashFlow(k)])

NotConverged == ipc = "returned" /\ iteration = maxIterations

C30_RateStaysInRange ==
  /\ irr \in Int
  /\ irr >= -90
  /\ irr <= 110
  /\ (irr - 10) % 2 = iteration % 2
  /\ ipc = "search" /\ iteration < maxIterations => 100 + irr >= 11
  /\ NotConverged => (irr - 10) % 2 = 0

C30_Witness ==
  /\ NotConverged
  /\ irr = -90
  /\ cashFlows # <<>>
  /\ cashFlows[1] < 0

(***************************************************************************)
(* C25: in the application, after any sequence of input changes, once the  *)
(* recompute effect for the latest inputs has run, results is the full     *)
(* 60-month projection of the current inputs and kpis is the KPI summary   *)
(* of exactly that results sequence and those inputs; results and kpis are *)
(* always replaced together from one input snapshot, never partially.      *)
(***************************************************************************)
IsProjectionOf(rs, in, n) ==
  /\ Len(rs) = n
  /\ \A k \in 1..n :
       rs[k] = calculateMonthlyResults(in, k,
                 IF k = 1 THEN Zero ELSE rs[k - 1].loanBalance,
                 IF k = 1 THEN Zero ELSE rs[k - 1].cumulativeCash)

C25_UpToDate ==
  effect = "idle" =>
    /\ IsProjectionOf(appResults, appInputs, 60)
    /\ appKpis = <<calculateKPIs(appResults, appInputs)>>

C25_ReplacedTogether ==
  (appResults' # appResults \/ appKpis' # appKpis) =>
    /\ IsProjectionOf(appResults', inputs, 60)
    /\ appKpis' = <<calculateKPIs(appResults', inputs)>>
    /\ appInputs' = inputs

C25_AppRecomputesTogether ==
  /\ []C25_UpToDate
  /\ [][C25_ReplacedTogether]_vars

C25_Witness ==
  /\ effect = "idle"
  /\ appInputs \notin AppInitialInputs
  /\ appInputs.financing.purchaseMethod = "cash"
  /\ appInputs.utilization.noShowRate = 50
  /\ Len(appResults) = 60
  /\ appResults[1].cashFlow # appResults[60].cashFlow
  /\ appKpis # <<>>
  /\ appKpis[1].monthlyPayment = Zero

====
